---------------------------- MODULE Spec2Model ----------------------------
(***************************************************************************)
(* Model of src/extract_questions.py: the line-stream parser               *)
(* parse_questions, the validator loop of process_file and the helpers     *)
(* they use.                                                               *)
(*                                                                         *)
(* Text is modelled as a sequence of Unicode code points, so that the      *)
(* script test (is_hindi), the two regular expressions, str.strip and the  *)
(* case-insensitive keyword test are computed on characters as the code    *)
(* computes them.                                                          *)
(***************************************************************************)
EXTENDS Integers, Sequences, FiniteSets, TLC

(***************************************************************************)
(* Bounds of the model.                                                    *)
(***************************************************************************)
\* Number of raw input lines a run consumes before parse_questions returns.
MaxLines == 4

(***************************************************************************)
(* Characters.                                                             *)
(***************************************************************************)
\* Code points for which str.isspace() holds; str.strip() removes them and
\* the regular-expression class \s matches them.
WhiteSpace ==
    (9..13) \cup (28..32) \cup {133, 160, 5760} \cup (8192..8202)
            \cup {8232, 8233, 8239, 8287, 12288}

IsSpace(c) == c \in WhiteSpace

\* The class \d of a str pattern: decimal digits (category Nd).  The model
\* covers the Nd code points of the two scripts of the documents: ASCII
\* 0-9 and the Devanagari digits U+0966..U+096F.
IsDigit(c) == c \in (48..57) \cup (2406..2415)

\* Value of a decimal digit, as int() reads it.
DigitVal(c) == IF c \in 48..57 THEN c - 48 ELSE c - 2406

\* The class [A-Za-z0-9] of REGEX_OPTION_START (no IGNORECASE, ASCII only).
IsAlnum(c) == c \in (48..57) \cup (65..90) \cup (97..122)

\* str.lower() on one character (ASCII letters; the other code points of the
\* model have no case).
Lower(c) == IF c \in 65..90 THEN c + 32 ELSE c

\* str.lower()
LowerStr(s) == [i \in 1..Len(s) |-> Lower(s[i])]

\* The class [A-Z] under re.IGNORECASE.
IsLetterCI(c) == Lower(c) \in 97..122

Min(S) == CHOOSE x \in S : \A y \in S : x <= y
Max(S) == CHOOSE x \in S : \A y \in S : x >= y

\* Variant of Strip that leaves the line as it is (line 95 without strip()
\* on the lines it keeps).
StripNothing(s) == s

\* str.strip(): drop leading and trailing whitespace.
Strip(s) ==
    LET keep == {i \in 1..Len(s) : ~IsSpace(s[i])}
    IN  IF keep = {} THEN <<>> ELSE SubSeq(s, Min(keep), Max(keep))

\* `k in s` for strings: k occurs as a contiguous substring of s.
Contains(s, k) ==
    \E i \in 1..(Len(s) - Len(k) + 1) : SubSeq(s, i, i + Len(k) - 1) = k

(***************************************************************************)
(* SKIP_KEYWORDS (line 47).                                                *)
(***************************************************************************)
SKIP_KEYWORDS ==
    << <<73, 110, 115, 116, 114, 117, 99, 116, 105, 111, 110, 115>>,        \* Instructions
       <<84, 105, 109, 101, 32, 65, 108, 108, 111, 119, 101, 100>>,         \* Time Allowed
       <<77, 97, 120, 105, 109, 117, 109, 32, 77, 97, 114, 107, 115>>,      \* Maximum Marks
       <<82, 111, 117, 103, 104, 32, 87, 111, 114, 107>>,                   \* Rough Work
       <<66, 111, 111, 107, 108, 101, 116, 32, 83, 101, 114, 105, 101, 115>>, \* Booklet Series
       <<67, 97, 110, 100, 105, 100, 97, 116, 101, 8217, 115, 32,
         82, 111, 108, 108, 32, 78, 117, 109, 98, 101, 114>> >>             \* Candidate's Roll Number (U+2019)

\* Variant of IsNoise that compares case-sensitively (the two lower() calls
\* of line 102 left out).
IsNoiseCaseSensitive(line) ==
    \E j \in 1..Len(SKIP_KEYWORDS) : Contains(line, SKIP_KEYWORDS[j])

\* Line 102: any(k.lower() in line.lower() for k in SKIP_KEYWORDS)
IsNoise(line) ==
    \E j \in 1..Len(SKIP_KEYWORDS) :
        Contains(LowerStr(line), LowerStr(SKIP_KEYWORDS[j]))

\* Variant of is_hindi with all() for any(): every code point must lie in
\* the block.
is_hindi_all(text) == \A i \in 1..Len(text) : 2304 <= text[i] /\ text[i] <= 2431

(***************************************************************************)
(* is_hindi (lines 49-51): some code point lies in U+0900..U+097F.         *)
(***************************************************************************)
is_hindi(text) == \E i \in 1..Len(text) : 2304 <= text[i] /\ text[i] <= 2431

(***************************************************************************)
(* Regular expressions.  A position is the index of the next character to  *)
(* read; Len(s) + 1 is the end of the string.                              *)
(***************************************************************************)
\* Greedy \s* from position i: the position after the whitespace run.  What
\* follows \s* in both patterns cannot start with whitespace, so giving
\* back whitespace never yields a match.
SkipSpaces(s, i) ==
    CHOOSE j \in i..(Len(s) + 1) :
        /\ \A k \in i..(j - 1) : IsSpace(s[k])
        /\ (j = Len(s) + 1 \/ ~IsSpace(s[j]))

\* Greedy \d+ from position i (the digit run; empty when s[i] is no digit).
\* A digit given back would have to match \s*[\.\)] and cannot.
SkipDigits(s, i) ==
    CHOOSE j \in i..(Len(s) + 1) :
        /\ \A k \in i..(j - 1) : IsDigit(s[k])
        /\ (j = Len(s) + 1 \/ ~IsDigit(s[j]))

\* s has the literal lit (lower case) at position i, ignoring case.
HasLiteralCI(s, i, lit) ==
    /\ i + Len(lit) - 1 <= Len(s)
    /\ \A k \in 1..Len(lit) : Lower(s[i + k - 1]) = lit[k]

\* (?:Q\.?|Question)? at position i: every position the optional label can
\* end at (the alternatives the matcher backtracks over).
LabelEnds(s, i) ==
    {i}
    \cup (IF HasLiteralCI(s, i, <<113>>) THEN {i + 1} ELSE {})
    \cup (IF HasLiteralCI(s, i, <<113, 46>>) THEN {i + 2} ELSE {})
    \cup (IF HasLiteralCI(s, i, <<113, 117, 101, 115, 116, 105, 111, 110>>)
          THEN {i + 8} ELSE {})

\* ([A-Z]-)? at position i.
PrefixEnds(s, i) ==
    {i} \cup (IF i + 1 <= Len(s) /\ IsLetterCI(s[i]) /\ s[i + 1] = 45
              THEN {i + 2} ELSE {})

\* Positions at which ^\s*(?:Q\.?|Question)?\s*([A-Z]-)? can end.
NumberStarts(s) ==
    UNION { PrefixEnds(s, SkipSpaces(s, b)) : b \in LabelEnds(s, SkipSpaces(s, 1)) }

\* The rest of the question pattern from position d:
\* (\d+)\s*[\.\)]\s+(.*), as [ok, num_end, text_start].
NumberTail(s, d) ==
    LET e == SkipDigits(s, d)
        f == SkipSpaces(s, e)
        g == IF f <= Len(s) THEN SkipSpaces(s, f + 1) ELSE f
    IN  [ok |-> /\ e > d
                /\ f <= Len(s)
                /\ s[f] \in {46, 41}
                /\ g > f + 1,
         num_end |-> e,
         text_start |-> g]

\* REGEX_QUESTION_START.match(line) (line 41): None, or the groups 2 and 3.
REGEX_QUESTION_START(line) ==
    LET starts == {d \in NumberStarts(line) : NumberTail(line, d).ok}
    IN  IF starts = {}
        THEN [matched |-> FALSE, num |-> <<>>, text |-> <<>>]
        ELSE LET d == Min(starts)
                 t == NumberTail(line, d)
             IN  [matched |-> TRUE,
                  num |-> SubSeq(line, d, t.num_end - 1),
                  text |-> SubSeq(line, t.text_start, Len(line))]

\* REGEX_OPTION_START.match(line) (line 44): None, or group 3.
REGEX_OPTION_START(line) ==
    LET a == SkipSpaces(line, 1)
        paren == /\ a + 2 <= Len(line)
                 /\ line[a] = 40
                 /\ IsAlnum(line[a + 1])
                 /\ line[a + 2] = 41
        bare == /\ a + 1 <= Len(line)
                /\ IsAlnum(line[a])
                /\ line[a + 1] \in {41, 46}
        b == IF paren THEN a + 3 ELSE a + 2
        g == IF b <= Len(line) THEN SkipSpaces(line, b) ELSE b
    IN  IF (paren \/ bare) /\ g > b
        THEN [matched |-> TRUE, text |-> SubSeq(line, g, Len(line))]
        ELSE [matched |-> FALSE, text |-> <<>>]

(***************************************************************************)
(* Input: the raw lines a document's OCR can deliver.  Each run consumes   *)
(* at most MaxLines of them, in any order and with repetition.             *)
(***************************************************************************)
\* The stem of 500 characters ("x" repeated) of the long question line.
LongStem == [i \in 1..500 |-> 120]

RawLines ==
    << <<49, 46, 32, 87, 104, 97, 116, 32, 105, 115, 32, 88, 63>>,  \* "1. What is X?"
       <<50, 46, 32, 87, 104, 97, 116, 32, 105, 115, 32, 89, 63>>,  \* "2. What is Y?"
       <<48, 49, 46, 32, 90>>,                                      \* "01. Z"
       <<81, 32, 49, 41, 32, 2325, 2351>>,                          \* "Q 1) " U+0915 U+092F
       <<40, 65, 41, 32, 65, 108, 112, 104, 97>>,                   \* "(A) Alpha"
       <<32, 98, 46, 32, 2326, 32>>,                                \* " b. " U+0916 " "
       <<99, 111, 110, 116, 105, 110, 117, 101, 100>>,              \* "continued"
       <<2327>>,                                                    \* U+0917
       <<51, 46, 32, 116, 105, 109, 101, 32, 97, 108, 108, 111, 119, 101, 100>>, \* "3. time allowed"
       <<53, 46, 32>> \o LongStem,                                  \* "5. xxx...x"
       <<32, 32>>,                                                  \* "  "
       <<40, 65, 41, 32, 82, 111, 117, 103, 104, 32, 87, 111, 114, 107>>, \* "(A) Rough Work"
       <<50, 41, 32, 66, 101, 116, 97, 32, 2325>>,                  \* "2) Beta " U+0915
       <<52, 46, 32>> >>                                            \* "4. "

\* What the loop decides about one raw line, computed once per line:
\* the cleaned line (line 95), the noise test (line 102) and the two
\* matches (lines 106 and 160).
Classify(raw) ==
    LET line == Strip(raw)
    IN  [line |-> line,
         noise |-> IsNoise(line),
         q_match |-> REGEX_QUESTION_START(line),
         opt_match |-> REGEX_OPTION_START(line),
         hindi |-> is_hindi(line)]

Lines == [i \in 1..Len(RawLines) |-> Classify(RawLines[i])]

(***************************************************************************)
(* Question objects (lines 116-141).                                       *)
(***************************************************************************)
UNK == <<85, 78, 75>>    \* "UNK"

EXAM_NAME == "Generic Exam"

CLASSIFICATION_STUB ==
    [subject |-> "Unknown", topic |-> "Unknown", subTopic |-> "Unknown"]

\* Variant of NewQuestion whose id is the bare digit string.
NewQuestionBareId(q_id, exam_name, classification_stub) ==
    [id |-> q_id,
     sourceInfo |-> [examName |-> exam_name, examYear |-> 2023,
                     examDateShift |-> "Unknown"],
     classification |-> classification_stub,
     tags |-> <<>>,
     properties |-> [difficulty |-> "Medium", questionType |-> "MCQ"],
     question |-> <<>>,
     question_hi |-> <<>>,
     options |-> <<>>,
     options_hi |-> <<>>,
     correct |-> <<>>,
     explanation |-> [summary |-> <<>>, analysis_correct |-> <<>>,
                      analysis_incorrect |-> <<>>, conclusion |-> <<>>,
                      fact |-> <<>>]]

NewQuestion(q_id, exam_name, classification_stub) ==
    [id |-> UNK \o q_id,
     sourceInfo |-> [examName |-> exam_name, examYear |-> 2023,
                     examDateShift |-> "Unknown"],
     classification |-> classification_stub,
     tags |-> <<>>,
     properties |-> [difficulty |-> "Medium", questionType |-> "MCQ"],
     question |-> <<>>,
     question_hi |-> <<>>,
     options |-> <<>>,
     options_hi |-> <<>>,
     correct |-> <<>>,
     explanation |-> [summary |-> <<>>, analysis_correct |-> <<>>,
                      analysis_incorrect |-> <<>>, conclusion |-> <<>>,
                      fact |-> <<>>]]

(***************************************************************************)
(* State.                                                                  *)
(*   questions_map   the dict of line 92, as its entries in insertion      *)
(*                   order: a sequence of [key, obj]                       *)
(*   current_q_obj   0 for None, else the position in questions_map of the *)
(*                   object the variable refers to                         *)
(*   line_idx        the raw line the loop consumed last (index in         *)
(*                   RawLines; 0 before the first)                         *)
(*   consumed        number of raw lines consumed                          *)
(*   pc              "parsing", "returned" (parse_questions returned) or   *)
(*                   "validated" (the filter of process_file has run)      *)
(*   sorted_questions, valid_questions   the lists of lines 187 and 209    *)
(* History variables, read by the properties only:                         *)
(*   q_ids_seen      identifiers captured from the question-start lines    *)
(*                   processed so far                                      *)
(*   last_q_id       identifier of the latest of them (<<>> if none)       *)
(*   option_lines    per entry of questions_map, the number of option      *)
(*                   lines processed while it was current                  *)
(***************************************************************************)
VARIABLES questions_map, current_q_obj, line_idx, consumed, pc,
          sorted_questions, valid_questions,
          q_ids_seen, last_q_id, option_lines

(***************************************************************************)
(* State of extract_text_from_pdf (lines 53-86):                           *)
(*   images          - number of page images the rasterizer returned       *)
(*   page_i          - 1-based number of the page the loop is at           *)
(*   ocr_pc          - "start", "ocr_left", "ocr_right" or "returned"      *)
(*   text_left       - the text of the left half of the current page       *)
(*   full_text_lines - the list the function returns                       *)
(*   ocr_log         - history: what happened to each page so far          *)
(* State of the batch loop (lines 227-241):                                *)
(*   json_size       - file system: for each base name, whether the        *)
(*                     .json file is absent, at most 100 bytes or larger   *)
(*   files           - the sorted list of PDF names                        *)
(*   file_i          - 1-based index of the file the loop is at            *)
(*   handled         - history: what the loop did with each file so far    *)
(***************************************************************************)
VARIABLES images, page_i, ocr_pc, text_left, full_text_lines, ocr_log,
          json_size, files, file_i, handled

parse_vars == <<questions_map, current_q_obj, line_idx, consumed, pc,
                sorted_questions, valid_questions,
                q_ids_seen, last_q_id, option_lines>>

ocr_vars == <<images, page_i, ocr_pc, text_left, full_text_lines, ocr_log>>

batch_vars == <<json_size, files, file_i, handled>>

vars == <<questions_map, current_q_obj, line_idx, consumed, pc,
          sorted_questions, valid_questions,
          q_ids_seen, last_q_id, option_lines,
          images, page_i, ocr_pc, text_left, full_text_lines, ocr_log,
          json_size, files, file_i, handled>>

ParseInit ==
    /\ questions_map = <<>>
    /\ current_q_obj = 0
    /\ line_idx = 0
    /\ consumed = 0
    /\ pc = "parsing"
    /\ sorted_questions = <<>>
    /\ valid_questions = <<>>
    /\ q_ids_seen = {}
    /\ last_q_id = <<>>
    /\ option_lines = <<>>

OcrInit ==
    /\ images = 0
    /\ page_i = 0
    /\ ocr_pc = "start"
    /\ text_left = <<>>
    /\ full_text_lines = <<>>
    /\ ocr_log = <<>>

BatchIdle ==
    /\ json_size = <<>>
    /\ files = <<>>
    /\ file_i = 1
    /\ handled = <<>>

Init == ParseInit /\ OcrInit /\ BatchIdle

(***************************************************************************)
(* Helpers of the loop body.                                               *)
(***************************************************************************)
\* Positions of the entries of map stored under key q_id.
KeyPositions(map, q_id) == {i \in 1..Len(map) : map[i].key = q_id}

\* Variant of EnsureQuestion without the membership test of line 115: every
\* question-start line adds an entry.
EnsureQuestionAlwaysNew(map, q_id) ==
    Append(map, [key |-> q_id,
                 obj |-> NewQuestion(q_id, EXAM_NAME, CLASSIFICATION_STUB)])

\* Lines 115-141: the map after `if q_id not in questions_map: ...`.
EnsureQuestion(map, q_id) ==
    IF KeyPositions(map, q_id) = {}
    THEN Append(map, [key |-> q_id,
                      obj |-> NewQuestion(q_id, EXAM_NAME, CLASSIFICATION_STUB)])
    ELSE map

\* Variant of LookupQuestion that takes the entry added last instead of the
\* entry stored under q_id.
LookupQuestionLatest(map, q_id) == Len(map)

\* Line 143: questions_map[q_id].
LookupQuestion(map, q_id) == Min(KeyPositions(map, q_id))

\* Variant of StemAfterStart that assigns the text instead of joining it.
StemAfterStartOverwritten(stem, q_text) == q_text

\* Lines 147-155: the stem after a question-start line adds q_text.
StemAfterStart(stem, q_text) ==
    IF stem # <<>> THEN stem \o <<32>> \o q_text ELSE q_text

\* Variant of OptionsAfterOption that joins the text to the last option when
\* there is one.
OptionsAfterOptionMerged(options, opt_text) ==
    IF options = <<>> THEN <<opt_text>>
    ELSE [options EXCEPT ![Len(options)] = @ \o <<32>> \o opt_text]

\* Lines 166 and 168: list.append(opt_text).
OptionsAfterOption(options, opt_text) == Append(options, opt_text)

\* Variant of OptionsAfterContinuation that adds the line as a new option.
OptionsAfterContinuationAppended(options, line) == Append(options, line)

\* Lines 177 and 182: options[-1] += " " + line.
OptionsAfterContinuation(options, line) ==
    [options EXCEPT ![Len(options)] = @ \o <<32>> \o line]

\* Lines 179 and 184: stem += " " + line.
StemAfterContinuation(stem, line) == stem \o <<32>> \o line

\* The loop takes the next raw line i.
Take(i) ==
    /\ pc = "parsing"
    /\ consumed < MaxLines
    /\ consumed' = consumed + 1
    /\ line_idx' = i

(***************************************************************************)
(* The loop of parse_questions, one action per way a line is handled.      *)
(***************************************************************************)
\* Line 95: a raw line that is empty after strip() is not in cleaned_lines.
BlankLine ==
    \E i \in 1..Len(RawLines) :
        /\ Take(i)
        /\ Lines[i].line = <<>>
        /\ UNCHANGED <<questions_map, current_q_obj, pc, sorted_questions,
                       valid_questions, q_ids_seen, last_q_id, option_lines>>

\* Lines 102-103: a line with a skip keyword.
NoiseLine ==
    \E i \in 1..Len(RawLines) :
        /\ Take(i)
        /\ Lines[i].line # <<>>
        /\ Lines[i].noise
        /\ UNCHANGED <<questions_map, current_q_obj, pc, sorted_questions,
                       valid_questions, q_ids_seen, last_q_id, option_lines>>

\* Variant of QuestionStart with line 143 moved behind the append: the text
\* is joined to the stem of the record that was current before the line (to
\* the record of q_id when there was none), and only then the record of q_id
\* becomes current.
QuestionStartLateSwitch ==
    \E i \in 1..Len(RawLines) :
        /\ Take(i)
        /\ Lines[i].line # <<>>
        /\ ~Lines[i].noise
        /\ Lines[i].q_match.matched
        /\ LET q_id == Lines[i].q_match.num
               q_text == Lines[i].q_match.text
               map == EnsureQuestion(questions_map, q_id)
               cur == LookupQuestion(map, q_id)
               target == IF current_q_obj = 0 THEN cur ELSE current_q_obj
           IN  /\ current_q_obj' = cur
               /\ questions_map' =
                    IF is_hindi(q_text)
                    THEN [map EXCEPT ![target].obj.question_hi =
                                         StemAfterStart(@, q_text)]
                    ELSE [map EXCEPT ![target].obj.question =
                                         StemAfterStart(@, q_text)]
               /\ option_lines' = IF Len(map) > Len(questions_map)
                                  THEN Append(option_lines, 0)
                                  ELSE option_lines
               /\ q_ids_seen' = q_ids_seen \cup {q_id}
               /\ last_q_id' = q_id
        /\ UNCHANGED <<pc, sorted_questions, valid_questions>>

\* Lines 106-157: a question-start line.
QuestionStart ==
    \E i \in 1..Len(RawLines) :
        /\ Take(i)
        /\ Lines[i].line # <<>>
        /\ ~Lines[i].noise
        /\ Lines[i].q_match.matched
        /\ LET q_id == Lines[i].q_match.num
               q_text == Lines[i].q_match.text
               map == EnsureQuestion(questions_map, q_id)
               cur == LookupQuestion(map, q_id)
           IN  /\ current_q_obj' = cur
               /\ questions_map' =
                    IF is_hindi(q_text)
                    THEN [map EXCEPT ![cur].obj.question_hi =
                                         StemAfterStart(@, q_text)]
                    ELSE [map EXCEPT ![cur].obj.question =
                                         StemAfterStart(@, q_text)]
               /\ option_lines' = IF Len(map) > Len(questions_map)
                                  THEN Append(option_lines, 0)
                                  ELSE option_lines
               /\ q_ids_seen' = q_ids_seen \cup {q_id}
               /\ last_q_id' = q_id
        /\ UNCHANGED <<pc, sorted_questions, valid_questions>>

\* Variant of OptionStart without the `and current_q_obj` of line 161 that
\* opens an unnumbered question for an option line met before any question.
OptionStartOpensQuestion ==
    \E i \in 1..Len(RawLines) :
        /\ Take(i)
        /\ Lines[i].line # <<>>
        /\ ~Lines[i].noise
        /\ ~Lines[i].q_match.matched
        /\ Lines[i].opt_match.matched
        /\ LET map == IF current_q_obj = 0
                      THEN Append(questions_map,
                                  [key |-> <<>>,
                                   obj |-> NewQuestion(<<>>, EXAM_NAME,
                                                       CLASSIFICATION_STUB)])
                      ELSE questions_map
               cur == IF current_q_obj = 0 THEN Len(map) ELSE current_q_obj
           IN  /\ questions_map' =
                    [map EXCEPT ![cur].obj.options =
                                    Append(@, Lines[i].opt_match.text)]
               /\ current_q_obj' = cur
               /\ option_lines' =
                    IF current_q_obj = 0 THEN Append(option_lines, 1)
                    ELSE [option_lines EXCEPT ![cur] = @ + 1]
        /\ UNCHANGED <<pc, sorted_questions, valid_questions,
                       q_ids_seen, last_q_id>>

\* Variant of OptionStart for a loop that tries the option pattern before
\* the question pattern: a line that matches both is taken as an option.
OptionStartTriedFirst ==
    \E i \in 1..Len(RawLines) :
        /\ Take(i)
        /\ Lines[i].line # <<>>
        /\ ~Lines[i].noise
        /\ Lines[i].opt_match.matched
        /\ current_q_obj # 0
        /\ LET opt_text == Lines[i].opt_match.text
           IN  questions_map' =
                 IF is_hindi(opt_text)
                 THEN [questions_map EXCEPT ![current_q_obj].obj.options_hi =
                                                OptionsAfterOption(@, opt_text)]
                 ELSE [questions_map EXCEPT ![current_q_obj].obj.options =
                                                OptionsAfterOption(@, opt_text)]
        /\ option_lines' = [option_lines EXCEPT ![current_q_obj] = @ + 1]
        /\ UNCHANGED <<current_q_obj, pc, sorted_questions, valid_questions,
                       q_ids_seen, last_q_id>>

\* Lines 160-169: an option line while there is a current question.
OptionStart ==
    \E i \in 1..Len(RawLines) :
        /\ Take(i)
        /\ Lines[i].line # <<>>
        /\ ~Lines[i].noise
        /\ ~Lines[i].q_match.matched
        /\ Lines[i].opt_match.matched
        /\ current_q_obj # 0
        /\ LET opt_text == Lines[i].opt_match.text
           IN  questions_map' =
                 IF is_hindi(opt_text)
                 THEN [questions_map EXCEPT ![current_q_obj].obj.options_hi =
                                                OptionsAfterOption(@, opt_text)]
                 ELSE [questions_map EXCEPT ![current_q_obj].obj.options =
                                                OptionsAfterOption(@, opt_text)]
        /\ option_lines' = [option_lines EXCEPT ![current_q_obj] = @ + 1]
        /\ UNCHANGED <<current_q_obj, pc, sorted_questions, valid_questions,
                       q_ids_seen, last_q_id>>

\* Lines 172-184: any other line while there is a current question.
Continuation ==
    \E i \in 1..Len(RawLines) :
        /\ Take(i)
        /\ Lines[i].line # <<>>
        /\ ~Lines[i].noise
        /\ ~Lines[i].q_match.matched
        /\ ~Lines[i].opt_match.matched
        /\ current_q_obj # 0
        /\ LET line == Lines[i].line
               q == questions_map[current_q_obj].obj
           IN  questions_map' =
                 IF is_hindi(line)
                 THEN IF q.options_hi # <<>>
                      THEN [questions_map EXCEPT ![current_q_obj].obj.options_hi =
                                                     OptionsAfterContinuation(@, line)]
                      ELSE [questions_map EXCEPT ![current_q_obj].obj.question_hi =
                                                     StemAfterContinuation(@, line)]
                 ELSE IF q.options # <<>>
                      THEN [questions_map EXCEPT ![current_q_obj].obj.options =
                                                     OptionsAfterContinuation(@, line)]
                      ELSE [questions_map EXCEPT ![current_q_obj].obj.question =
                                                     StemAfterContinuation(@, line)]
        /\ UNCHANGED <<current_q_obj, pc, sorted_questions, valid_questions,
                       q_ids_seen, last_q_id, option_lines>>

\* Lines 161 and 172 with current_q_obj None: neither branch runs.
DroppedLine ==
    \E i \in 1..Len(RawLines) :
        /\ Take(i)
        /\ Lines[i].line # <<>>
        /\ ~Lines[i].noise
        /\ ~Lines[i].q_match.matched
        /\ current_q_obj = 0
        /\ UNCHANGED <<questions_map, current_q_obj, pc, sorted_questions,
                       valid_questions, q_ids_seen, last_q_id, option_lines>>

(***************************************************************************)
(* The sort of lines 186-188.                                              *)
(***************************************************************************)
\* str.replace('UNK', ''): every occurrence removed, left to right.
RECURSIVE RemoveUNK(_)
RemoveUNK(s) ==
    IF Len(s) < Len(UNK) THEN s
    ELSE IF SubSeq(s, 1, Len(UNK)) = UNK
         THEN RemoveUNK(SubSeq(s, Len(UNK) + 1, Len(s)))
         ELSE <<Head(s)>> \o RemoveUNK(Tail(s))

\* str.isdigit() on the strings of the model: non-empty, digits only.
IsDigitStr(s) == s # <<>> /\ \A i \in 1..Len(s) : IsDigit(s[i])

\* int() of a digit string.
RECURSIVE IntOf(_)
IntOf(s) ==
    IF s = <<>> THEN 0
    ELSE 10 * IntOf(SubSeq(s, 1, Len(s) - 1)) + DigitVal(s[Len(s)])

\* The key function of line 187.
SortKey(x) ==
    IF IsDigitStr(RemoveUNK(x.id)) THEN IntOf(RemoveUNK(x.id)) ELSE 0

\* Variant of InsertByKey that puts x before the elements of equal key: a
\* sort that is not stable.
InsertByKeyBeforeEqual(sorted, x) ==
    LET before == {i \in 1..Len(sorted) : SortKey(sorted[i]) < SortKey(x)}
        n == IF before = {} THEN 0 ELSE Max(before)
    IN  SubSeq(sorted, 1, n) \o <<x>> \o SubSeq(sorted, n + 1, Len(sorted))

\* x put into the sorted list after every element whose key is not greater:
\* the place a stable sort gives an element that came later in the input.
InsertByKey(sorted, x) ==
    LET before == {i \in 1..Len(sorted) : SortKey(sorted[i]) <= SortKey(x)}
        n == IF before = {} THEN 0 ELSE Max(before)
    IN  SubSeq(sorted, 1, n) \o <<x>> \o SubSeq(sorted, n + 1, Len(sorted))

\* Variant of Sorted that returns the values in insertion order.
Unsorted(values) == values

\* sorted(values, key=...): stable, ascending by key.
RECURSIVE Sorted(_)
Sorted(values) ==
    IF values = <<>> THEN <<>>
    ELSE InsertByKey(Sorted(SubSeq(values, 1, Len(values) - 1)),
                     values[Len(values)])

\* questions_map.values(): the objects in insertion order.
Values(map) == [i \in 1..Len(map) |-> map[i].obj]

\* Lines 186-188: the loop has ended; parse_questions returns the sorted list.
ReturnSorted ==
    /\ pc = "parsing"
    /\ sorted_questions' = Sorted(Values(questions_map))
    /\ pc' = "returned"
    /\ UNCHANGED <<questions_map, current_q_obj, line_idx, consumed,
                   valid_questions, q_ids_seen, last_q_id, option_lines>>

(***************************************************************************)
(* The validator of process_file (lines 208-218).                          *)
(***************************************************************************)
\* The stem length above which a question without options is dropped.
STEM_LIMIT == 500

\* Line 212.
NoStem(q) == q.question = <<>> /\ q.question_hi = <<>>

\* Variant of LooksLikeInstructions with >= for > (a stem of exactly
\* STEM_LIMIT characters counts as long).
LooksLikeInstructionsFrom500(q) ==
    /\ (Len(q.question) >= STEM_LIMIT \/ Len(q.question_hi) >= STEM_LIMIT)
    /\ q.options = <<>>
    /\ q.options_hi = <<>>

\* Line 215.
LooksLikeInstructions(q) ==
    /\ (Len(q.question) > STEM_LIMIT \/ Len(q.question_hi) > STEM_LIMIT)
    /\ q.options = <<>>
    /\ q.options_hi = <<>>

\* Lines 209-218: the questions that reach valid_questions.append(q).
IsValid(q) == ~NoStem(q) /\ ~LooksLikeInstructions(q)

\* Variant of ValidQuestions whose loop starts at the second question.
ValidQuestionsFromSecond(questions) ==
    IF questions = <<>> THEN <<>> ELSE SelectSeq(Tail(questions), IsValid)

RECURSIVE ValidQuestions(_)
ValidQuestions(questions) ==
    IF questions = <<>> THEN <<>>
    ELSE IF IsValid(Head(questions))
         THEN <<Head(questions)>> \o ValidQuestions(Tail(questions))
         ELSE ValidQuestions(Tail(questions))

\* Lines 206-218: process_file filters what parse_questions returned.
Validate ==
    /\ pc = "returned"
    /\ valid_questions' = ValidQuestions(sorted_questions)
    /\ pc' = "validated"
    /\ UNCHANGED <<questions_map, current_q_obj, line_idx, consumed,
                   sorted_questions, q_ids_seen, last_q_id, option_lines>>

Next ==
    \/ BlankLine /\ UNCHANGED <<ocr_vars, batch_vars>>
    \/ NoiseLine /\ UNCHANGED <<ocr_vars, batch_vars>>
    \/ QuestionStart /\ UNCHANGED <<ocr_vars, batch_vars>>
    \/ OptionStart /\ UNCHANGED <<ocr_vars, batch_vars>>
    \/ Continuation /\ UNCHANGED <<ocr_vars, batch_vars>>
    \/ DroppedLine /\ UNCHANGED <<ocr_vars, batch_vars>>
    \/ ReturnSorted /\ UNCHANGED <<ocr_vars, batch_vars>>
    \/ Validate /\ UNCHANGED <<ocr_vars, batch_vars>>

Spec == Init /\ [][Next]_vars

(***************************************************************************)
(* extract_text_from_pdf (lines 53-86).  The rasterizer and the OCR engine *)
(* are outside the program: the number of pages, the text of each half     *)
(* page and whether a call raises are inputs.                              *)
(***************************************************************************)
MaxPages == 3

\* The texts the OCR engine may return for one half page:
\* "", "a\nb", "c\n" and "क".
OcrTexts == { <<>>, <<97, 10, 98>>, <<99, 10>>, <<2325>> }

\* str.split('\n'): the pieces between the newlines; "" gives [""].
RECURSIVE Split(_)
Split(text) ==
    IF \E k \in 1..Len(text) : text[k] = 10
    THEN LET k == CHOOSE j \in 1..Len(text) :
                      /\ text[j] = 10
                      /\ \A h \in 1..(j - 1) : text[h] # 10
         IN  <<SubSeq(text, 1, k - 1)>>
                 \o Split(SubSeq(text, k + 1, Len(text)))
    ELSE <<text>>

\* Lines 81-82: the two extends that follow the two OCR calls.
ExtendWithPage(lines, left, right) == (lines \o Split(left)) \o Split(right)

\* The loop moves to the next page, or the function returns after the last.
NextPage ==
    /\ page_i' = page_i + 1
    /\ ocr_pc' = IF page_i + 1 > images THEN "returned" ELSE "ocr_left"

\* Lines 59-61 succeed: the document has n pages.
Rasterize ==
    /\ ocr_pc = "start"
    /\ \E n \in 0..MaxPages :
        /\ images' = n
        /\ page_i' = 1
        /\ ocr_pc' = IF n = 0 THEN "returned" ELSE "ocr_left"
    /\ UNCHANGED <<text_left, full_text_lines, ocr_log>>

\* Lines 62-64: the rasterizer raises; the function returns [].
RasterizeFails ==
    /\ ocr_pc = "start"
    /\ ocr_pc' = "returned"
    /\ full_text_lines' = <<>>
    /\ UNCHANGED <<images, page_i, text_left, ocr_log>>

\* Line 78 succeeds.
OcrLeft ==
    /\ ocr_pc = "ocr_left"
    /\ \E t \in OcrTexts : text_left' = t
    /\ ocr_pc' = "ocr_right"
    /\ UNCHANGED <<images, page_i, full_text_lines, ocr_log>>

\* Line 78 raises: lines 83-84 log the error, the loop goes on.
OcrLeftFails ==
    /\ ocr_pc = "ocr_left"
    /\ ocr_log' = Append(ocr_log, [ok |-> FALSE, half |-> "left",
                                   left |-> <<>>, right |-> <<>>])
    /\ NextPage
    /\ UNCHANGED <<images, text_left, full_text_lines>>

\* Line 79 succeeds, then lines 81-82.
OcrRight ==
    /\ ocr_pc = "ocr_right"
    /\ \E t \in OcrTexts :
        /\ full_text_lines' = ExtendWithPage(full_text_lines, text_left, t)
        /\ ocr_log' = Append(ocr_log, [ok |-> TRUE, half |-> "none",
                                       left |-> text_left, right |-> t])
    /\ NextPage
    /\ UNCHANGED <<images, text_left>>

\* A variant of OcrRightFails in which the left half's lines were added
\* before the right half was read.
OcrRightFailsKeepsLeft ==
    /\ ocr_pc = "ocr_right"
    /\ full_text_lines' = full_text_lines \o Split(text_left)
    /\ ocr_log' = Append(ocr_log, [ok |-> FALSE, half |-> "right",
                                   left |-> text_left, right |-> <<>>])
    /\ NextPage
    /\ UNCHANGED <<images, text_left>>

\* Line 79 raises: lines 81-82 are skipped, lines 83-84 log the error.
OcrRightFails ==
    /\ ocr_pc = "ocr_right"
    /\ ocr_log' = Append(ocr_log, [ok |-> FALSE, half |-> "right",
                                   left |-> text_left, right |-> <<>>])
    /\ NextPage
    /\ UNCHANGED <<images, text_left, full_text_lines>>

NextOCR ==
    \/ Rasterize /\ UNCHANGED <<parse_vars, batch_vars>>
    \/ RasterizeFails /\ UNCHANGED <<parse_vars, batch_vars>>
    \/ OcrLeft /\ UNCHANGED <<parse_vars, batch_vars>>
    \/ OcrLeftFails /\ UNCHANGED <<parse_vars, batch_vars>>
    \/ OcrRight /\ UNCHANGED <<parse_vars, batch_vars>>
    \/ OcrRightFails /\ UNCHANGED <<parse_vars, batch_vars>>

SpecOCR == Init /\ [][NextOCR]_vars

(***************************************************************************)
(* The batch loop (lines 227-241).  The directory listing, the sizes of    *)
(* the .json files already present and what happens inside process_file    *)
(* are inputs.  The file system changes only through the program.          *)
(***************************************************************************)
MaxRecords == 2

\* The directory entries: "a.pdf", "a.PDF", "B.Pdf" and "c.txt".
DirEntries == { <<97, 46, 112, 100, 102>>, <<97, 46, 80, 68, 70>>,
                <<66, 46, 80, 100, 102>>, <<99, 46, 116, 120, 116>> }

\* Lines 228 and 191: f.lower().endswith(".pdf").
EndsWithPdf(f) ==
    /\ Len(f) >= 4
    /\ LowerStr(SubSeq(f, Len(f) - 3, Len(f))) = <<46, 112, 100, 102>>

\* os.path.splitext(f)[0]: the name up to its last dot, when that dot
\* follows a character that is not a dot.
Base(f) ==
    LET dots == { k \in 1..Len(f) : f[k] = 46 }
        last == CHOOSE k \in dots : \A j \in dots : j <= k
    IN  IF dots # {} /\ (\E j \in 1..(last - 1) : f[j] # 46)
        THEN SubSeq(f, 1, last - 1)
        ELSE f

\* Python's order on strings: by code point, a proper prefix first.
StrLess(a, b) ==
    \E k \in 1..(Len(b)) :
        /\ \A j \in 1..(k - 1) : j <= Len(a) /\ a[j] = b[j]
        /\ \/ k = Len(a) + 1
           \/ k <= Len(a) /\ a[k] < b[k]

\* files.sort() at line 229.
RECURSIVE SortNames(_)
SortNames(names) ==
    IF names = {} THEN <<>>
    ELSE LET first == CHOOSE f \in names :
                          \A g \in names : g = f \/ StrLess(f, g)
         IN  <<first>> \o SortNames(names \ {first})

\* What a .json file can be for line 234: absent, of at most 100 bytes, or
\* of more than 100 bytes.
SizeClasses == {"none", "small", "big"}

\* Line 222 writes "[]" (2 bytes) for no record; one record, with its keys
\* and the indentation, is more than 100 bytes.
SizeOfDump(n) == IF n = 0 THEN "small" ELSE "big"

\* Lines 228-229, over every listing and every state of the .json files.
BatchStart ==
    \E listing \in SUBSET DirEntries :
        LET pdfs == { f \in listing : EndsWithPdf(f) }
        IN  /\ files = SortNames(pdfs)
            /\ json_size \in [ { Base(f) : f \in pdfs } -> SizeClasses ]
            /\ file_i = 1
            /\ handled = <<>>

\* Line 234: the output exists and is larger than 100 bytes.
AlreadyDone(f) == json_size[Base(f)] = "big"

\* A variant of NextAfterError in which the exception ends the loop.
NextAfterErrorAborts(i, n) == n + 1

\* Lines 238-241: the except clause prints and the for loop goes on.
NextAfterError(i, n) == i + 1

\* Lines 233-236.
SkipFile ==
    /\ file_i <= Len(files)
    /\ AlreadyDone(files[file_i])
    /\ handled' = Append(handled,
           [file |-> files[file_i], what |-> "skipped", seen |-> "big",
            rasterized |-> FALSE, records |-> 0])
    /\ file_i' = file_i + 1
    /\ UNCHANGED <<json_size, files>>

\* Lines 238-239 with process_file running to its end: n records are kept.
ProcessFile ==
    /\ file_i <= Len(files)
    /\ ~AlreadyDone(files[file_i])
    /\ \E n \in 0..MaxRecords :
        /\ json_size' = [json_size EXCEPT ![Base(files[file_i])] =
                                              SizeOfDump(n)]
        /\ handled' = Append(handled,
               [file |-> files[file_i], what |-> "saved",
                seen |-> json_size[Base(files[file_i])],
                rasterized |-> TRUE, records |-> n])
    /\ file_i' = file_i + 1
    /\ UNCHANGED files

\* Lines 59-64 inside process_file: the rasterizer raises, the line list is
\* empty, so are the records, and "[]" is written.
ProcessFileNotRasterized ==
    /\ file_i <= Len(files)
    /\ ~AlreadyDone(files[file_i])
    /\ json_size' = [json_size EXCEPT ![Base(files[file_i])] = SizeOfDump(0)]
    /\ handled' = Append(handled,
           [file |-> files[file_i], what |-> "saved",
            seen |-> json_size[Base(files[file_i])],
            rasterized |-> FALSE, records |-> 0])
    /\ file_i' = file_i + 1
    /\ UNCHANGED files

\* Lines 240-241: process_file raises.  The output is untouched when the
\* exception comes before line 222, and a partial file when it comes later.
ProcessFileRaises ==
    /\ file_i <= Len(files)
    /\ ~AlreadyDone(files[file_i])
    /\ \E left \in {json_size[Base(files[file_i])], "small", "big"} :
        json_size' = [json_size EXCEPT ![Base(files[file_i])] = left]
    /\ handled' = Append(handled,
           [file |-> files[file_i], what |-> "error",
            seen |-> json_size[Base(files[file_i])],
            rasterized |-> FALSE, records |-> 0])
    /\ file_i' = NextAfterError(file_i, Len(files))
    /\ UNCHANGED files

NextBatch ==
    \/ SkipFile /\ UNCHANGED <<parse_vars, ocr_vars>>
    \/ ProcessFile /\ UNCHANGED <<parse_vars, ocr_vars>>
    \/ ProcessFileNotRasterized /\ UNCHANGED <<parse_vars, ocr_vars>>
    \/ ProcessFileRaises /\ UNCHANGED <<parse_vars, ocr_vars>>

InitBatch == ParseInit /\ OcrInit /\ BatchStart

\* The loop is sequential code: while a file is left, the next iteration
\* runs.
SpecBatch ==
    /\ InitBatch
    /\ [][NextBatch]_vars
    /\ WF_vars(NextBatch)

(***************************************************************************)
(* Vocabulary of the properties.                                           *)
(***************************************************************************)
\* The step consumes raw line i.
Took(i) == consumed' = consumed + 1 /\ line_idx' = i

\* The raw lines that reach the loop (they are not blank) and hold a marker
\* phrase, compared without regard to case.
MarkerLines ==
    {i \in 1..Len(RawLines) :
        /\ Lines[i].line # <<>>
        /\ \E j \in 1..Len(SKIP_KEYWORDS) :
               Contains(LowerStr(Lines[i].line), LowerStr(SKIP_KEYWORDS[j]))}

HasMarkerPhrase(i) == i \in MarkerLines

\* Raw line i reaches the pattern tests: not blank, no marker phrase.
IsTextLine(i) == Lines[i].line # <<>> /\ ~HasMarkerPhrase(i)

IsQuestionLine(i) == IsTextLine(i) /\ Lines[i].q_match.matched

IsOptionLine(i) ==
    IsTextLine(i) /\ ~Lines[i].q_match.matched /\ Lines[i].opt_match.matched

IsContinuationLine(i) ==
    IsTextLine(i) /\ ~Lines[i].q_match.matched /\ ~Lines[i].opt_match.matched

IsPrefix(a, b) == Len(a) <= Len(b) /\ SubSeq(b, 1, Len(a)) = a

IsSuffix(a, b) == Len(a) <= Len(b) /\ SubSeq(b, Len(b) - Len(a) + 1, Len(b)) = a

Keys == {questions_map[k].key : k \in 1..Len(questions_map)}

\* The number an identifier "UNK<digits>" stands for.
NumericId(q) == IntOf(SubSeq(q.id, Len(UNK) + 1, Len(q.id)))

(***************************************************************************)
(* C1.  The keyed collection holds exactly one record per distinct digit   *)
(* string captured from the question-start lines processed so far, and a   *)
(* question-start line whose identifier is already a key makes the         *)
(* existing record current without creating a record or resetting what it  *)
(* holds.                                                                  *)
(***************************************************************************)
C1_KeysAreIdsSeen ==
    /\ Keys = q_ids_seen
    /\ Len(questions_map) = Cardinality(q_ids_seen)

C1_Reactivation ==
    \A i \in 1..Len(RawLines) :
        (Took(i) /\ IsQuestionLine(i) /\ Lines[i].q_match.num \in Keys) =>
            /\ Len(questions_map') = Len(questions_map)
            /\ current_q_obj' \in 1..Len(questions_map)
            /\ questions_map[current_q_obj'].key = Lines[i].q_match.num
            /\ \A k \in 1..Len(questions_map) :
                 /\ questions_map'[k].key = questions_map[k].key
                 /\ IsPrefix(questions_map[k].obj.question,
                             questions_map'[k].obj.question)
                 /\ IsPrefix(questions_map[k].obj.question_hi,
                             questions_map'[k].obj.question_hi)
                 /\ questions_map'[k].obj.options = questions_map[k].obj.options
                 /\ questions_map'[k].obj.options_hi = questions_map[k].obj.options_hi

\* C1: one record per identifier seen, and re-activation of an existing one.
C1_OneRecordPerIdentifier == []C1_KeysAreIdsSeen /\ [][C1_Reactivation]_vars

\* An English and then a Hindi question-start line numbered 1: one record,
\* both stems populated.
C1_Witness ==
    /\ consumed = 2
    /\ line_idx = 4
    /\ Len(questions_map) = 1
    /\ questions_map[1].key = <<49>>
    /\ questions_map[1].obj.question = <<87, 104, 97, 116, 32, 105, 115, 32, 88, 63>>
    /\ questions_map[1].obj.question_hi = <<2325, 2351>>

(***************************************************************************)
(* C2.  As claimed: every record's id is exactly the digit string captured *)
(* from the question-start line that created it.                           *)
(***************************************************************************)
C2_IdIsDigitString ==
    /\ \A k \in 1..Len(questions_map) :
           questions_map[k].obj.id = questions_map[k].key
    /\ \A j \in 1..Len(sorted_questions) : sorted_questions[j].id \in q_ids_seen

(***************************************************************************)
(* C2, amended.  Every record's id is "UNK" followed by the digit string   *)
(* captured from the question-start line that created it, in the           *)
(* collection and in the list parse_questions returns.                     *)
(***************************************************************************)
C2_IdIsUNKPlusDigitString ==
    /\ \A k \in 1..Len(questions_map) :
           /\ questions_map[k].obj.id = UNK \o questions_map[k].key
           /\ questions_map[k].key \in q_ids_seen
           /\ IsDigitStr(questions_map[k].key)
    /\ \A j \in 1..Len(sorted_questions) :
           \E d \in q_ids_seen : sorted_questions[j].id = UNK \o d

\* "1. What is X?", "(A) Alpha", "2. What is Y?", "(A) Alpha" returned:
\* ids "UNK1" and "UNK2", one option each.
C2_Witness ==
    /\ pc = "returned"
    /\ Len(sorted_questions) = 2
    /\ sorted_questions[1].id = <<85, 78, 75, 49>>
    /\ sorted_questions[2].id = <<85, 78, 75, 50>>
    /\ Len(sorted_questions[1].options) = 1
    /\ Len(sorted_questions[2].options) = 1

(***************************************************************************)
(* C3.  As claimed: the returned list is strictly ascending by the numeric *)
(* value of the identifiers.                                               *)
(***************************************************************************)
C3_StrictlyAscending ==
    \A j \in 1..(Len(sorted_questions) - 1) :
        NumericId(sorted_questions[j]) < NumericId(sorted_questions[j + 1])

(***************************************************************************)
(* C3, amended.  The returned list holds every record of the collection    *)
(* and is ascending by the numeric value of the identifiers, whatever the  *)
(* order of encounter; adjacent records may have equal numeric values      *)
(* (identifiers "1" and "01"), never descending ones, and no two records   *)
(* have the same identifier string.                                        *)
(***************************************************************************)
C3_Ascending ==
    pc # "parsing" =>
        /\ Len(sorted_questions) = Len(questions_map)
        /\ \A k \in 1..Len(questions_map) :
               \E j \in 1..Len(sorted_questions) :
                   sorted_questions[j] = questions_map[k].obj
        /\ \A j \in 1..(Len(sorted_questions) - 1) :
               NumericId(sorted_questions[j]) <= NumericId(sorted_questions[j + 1])
        /\ \A j, k \in 1..Len(sorted_questions) :
               j # k => sorted_questions[j].id # sorted_questions[k].id

\* Identifier 2 met before identifier 1, returned as 1 then 2.
C3_Witness ==
    /\ pc = "returned"
    /\ Len(questions_map) = 2
    /\ questions_map[1].key = <<50>>
    /\ questions_map[2].key = <<49>>
    /\ sorted_questions[1].id = <<85, 78, 75, 49>>
    /\ sorted_questions[2].id = <<85, 78, 75, 50>>

(***************************************************************************)
(* C4.  A line that holds a marker phrase, in any case, changes neither    *)
(* the collection nor any record nor the current-record pointer, also when *)
(* it matches the question-start or the option-start pattern.              *)
(***************************************************************************)
C4_MarkerStep ==
    \A i \in 1..Len(RawLines) :
        (Took(i) /\ HasMarkerPhrase(i)) =>
            UNCHANGED <<questions_map, current_q_obj>>

\* C4: a step that consumes a marker-phrase line is a no-op for the accumulator.
C4_MarkerLineIsNoOp == [][C4_MarkerStep]_vars

\* "3. time allowed" (a question-start by pattern) consumed while a record
\* is current: no record 3 exists.
C4_Witness ==
    /\ line_idx = 9
    /\ HasMarkerPhrase(9)
    /\ Lines[9].q_match.matched
    /\ current_q_obj # 0
    /\ Lines[9].q_match.num \notin Keys

(***************************************************************************)
(* C5.  A continuation line processed while a record is current goes to    *)
(* the last element of the option list of the line's script when that list *)
(* is non-empty (joined with one space; the list keeps its length and its  *)
(* other elements, the stem is unchanged) and to that script's stem only   *)
(* when the list is empty; an option list that is non-empty stays so.      *)
(***************************************************************************)
\* What a continuation line does to a stem / option list pair of one script.
C5_Routed(stem, options, stem2, options2, line) ==
    IF options # <<>>
    THEN /\ Len(options2) = Len(options)
         /\ \A j \in 1..(Len(options) - 1) : options2[j] = options[j]
         /\ options2[Len(options)] = options[Len(options)] \o <<32>> \o line
         /\ stem2 = stem
    ELSE /\ options2 = <<>>
         /\ stem2 # stem
         /\ IsPrefix(stem, stem2)
         /\ IsSuffix(line, stem2)

C5_ContinuationStep ==
    \A i \in 1..Len(RawLines) :
        (Took(i) /\ IsContinuationLine(i) /\ current_q_obj # 0) =>
            LET q == questions_map[current_q_obj].obj
                q2 == questions_map'[current_q_obj].obj
                line == Lines[i].line
            IN  IF is_hindi(line)
                THEN /\ C5_Routed(q.question_hi, q.options_hi,
                                  q2.question_hi, q2.options_hi, line)
                     /\ q2.question = q.question
                     /\ q2.options = q.options
                ELSE /\ C5_Routed(q.question, q.options,
                                  q2.question, q2.options, line)
                     /\ q2.question_hi = q.question_hi
                     /\ q2.options_hi = q.options_hi

C5_OptionsStay ==
    \A k \in 1..Len(questions_map) :
        /\ questions_map[k].obj.options # <<>> =>
               questions_map'[k].obj.options # <<>>
        /\ questions_map[k].obj.options_hi # <<>> =>
               questions_map'[k].obj.options_hi # <<>>

\* C5: continuation text goes to the last option once the script has one.
C5_ContinuationGoesToLastOption ==
    [][C5_ContinuationStep /\ C5_OptionsStay]_vars

\* "1. What is X?", "(A) Alpha", "continued": the option is
\* "Alpha continued", the stem "What is X?".
C5_Witness ==
    /\ consumed = 3
    /\ line_idx = 7
    /\ current_q_obj = 1
    /\ questions_map[1].obj.question = <<87, 104, 97, 116, 32, 105, 115, 32, 88, 63>>
    /\ questions_map[1].obj.options =
           << <<65, 108, 112, 104, 97, 32, 99, 111, 110, 116, 105, 110, 117, 101, 100>> >>

(***************************************************************************)
(* C6.  An option-start line processed while a record is current appends   *)
(* its text as one new last element to exactly one of the record's two     *)
(* option lists and leaves every existing element as it is; the two lists  *)
(* of a record together have as many elements as option-start lines were   *)
(* processed while the record was current.                                 *)
(***************************************************************************)
C6_CountsOptionLines ==
    /\ Len(option_lines) = Len(questions_map)
    /\ \A k \in 1..Len(questions_map) :
           Len(questions_map[k].obj.options) + Len(questions_map[k].obj.options_hi)
               = option_lines[k]

C6_OptionStep ==
    \A i \in 1..Len(RawLines) :
        (Took(i) /\ IsOptionLine(i) /\ current_q_obj # 0) =>
            LET q == questions_map[current_q_obj].obj
                q2 == questions_map'[current_q_obj].obj
                t == Lines[i].opt_match.text
            IN  \/ /\ q2.options = q.options \o <<t>>
                   /\ q2.options_hi = q.options_hi
                \/ /\ q2.options_hi = q.options_hi \o <<t>>
                   /\ q2.options = q.options

\* C6: an option-start line appends exactly one element; the count matches.
C6_OptionLineAppendsOneElement ==
    []C6_CountsOptionLines /\ [][C6_OptionStep]_vars

\* "1. What is X?", "(A) Alpha", " b. <Hindi> ", "(A) Alpha": three option
\* lines, options = <<"Alpha", "Alpha">>, options_hi of one element.
C6_Witness ==
    /\ consumed = 4
    /\ Len(questions_map) = 1
    /\ option_lines = <<3>>
    /\ questions_map[1].obj.options =
           << <<65, 108, 112, 104, 97>>, <<65, 108, 112, 104, 97>> >>
    /\ questions_map[1].obj.options_hi = << <<2326>> >>

(***************************************************************************)
(* C7.  Until a question-start line has been processed there is no current *)
(* record and the collection is empty, whatever option-start and           *)
(* continuation lines have been consumed: they are dropped.                *)
(***************************************************************************)
C7_NothingBeforeFirstQuestion ==
    q_ids_seen = {} => (current_q_obj = 0 /\ questions_map = <<>>)

\* Lines consumed, the last an option-start line or a continuation line,
\* and still no record.
C7_Witness ==
    /\ q_ids_seen = {}
    /\ consumed >= 2
    /\ line_idx \in {5, 7}
    /\ IsOptionLine(5)
    /\ IsContinuationLine(7)
    /\ questions_map = <<>>
    /\ current_q_obj = 0

(***************************************************************************)
(* C8.  Once a question-start line has been processed there is a current   *)
(* record, it is the record stored under the identifier of the latest      *)
(* question-start line, there is never again no current record, and lines  *)
(* that are not question-start lines leave the current record the same.    *)
(***************************************************************************)
C8_CurrentIsLatestId ==
    q_ids_seen # {} =>
        /\ current_q_obj \in 1..Len(questions_map)
        /\ questions_map[current_q_obj].key = last_q_id

C8_CurrentStep ==
    /\ current_q_obj # 0 => current_q_obj' # 0
    /\ \A i \in 1..Len(RawLines) :
           (Took(i) /\ ~IsQuestionLine(i)) => current_q_obj' = current_q_obj

\* C8: the current record is the record of the latest question-start line.
C8_OneCurrentRecord == []C8_CurrentIsLatestId /\ [][C8_CurrentStep]_vars

\* Identifiers 1, 2, 1 and then an option line: the first record is
\* current again and the option is its own.
C8_Witness ==
    /\ consumed = 4
    /\ Len(questions_map) = 2
    /\ last_q_id = <<49>>
    /\ questions_map[1].key = <<49>>
    /\ current_q_obj = 1
    /\ Len(questions_map[1].obj.options) = 1
    /\ questions_map[2].obj.options = <<>>

(***************************************************************************)
(* C9.  The validator drops a record exactly when both stems are empty, or *)
(* a stem is longer than 500 characters and both option lists are empty;   *)
(* the records it keeps are unchanged and in their incoming order.         *)
(***************************************************************************)
C9_Dropped(q) ==
    \/ (q.question = <<>> /\ q.question_hi = <<>>)
    \/ /\ (Len(q.question) > 500 \/ Len(q.question_hi) > 500)
       /\ q.options = <<>> /\ q.options_hi = <<>>

C9_Kept(q) == ~C9_Dropped(q)

\* C9: valid_questions is sorted_questions without the dropped records.
C9_ValidatorDropsExactly ==
    pc = "validated" => valid_questions = SelectSeq(sorted_questions, C9_Kept)

\* A stem of 510 characters without options is dropped, the record after it
\* is kept.
C9_Witness ==
    /\ pc = "validated"
    /\ Len(sorted_questions) = 2
    /\ Len(sorted_questions[2].question) = 510
    /\ sorted_questions[2].options = <<>>
    /\ valid_questions = <<sorted_questions[1]>>

(***************************************************************************)
(* C10.  As claimed: text is joined into a stem with a separating space    *)
(* only when the stem is non-empty, so no stem begins with a space.        *)
(***************************************************************************)
C10_NoStemBeginsWithSpace ==
    \A k \in 1..Len(questions_map) :
        /\ questions_map[k].obj.question # <<>> =>
               questions_map[k].obj.question[1] # 32
        /\ questions_map[k].obj.question_hi # <<>> =>
               questions_map[k].obj.question_hi[1] # 32

(***************************************************************************)
(* C11.  The text fields of a record are append-only while parsing: in     *)
(* every step the old value of each stem is a prefix of the new one, no    *)
(* option list gets shorter, every element but the last is unchanged and   *)
(* the old last element is a prefix of the element now at its position.    *)
(***************************************************************************)
C11_ListGrows(old, new) ==
    /\ Len(old) <= Len(new)
    /\ \A j \in 1..(Len(old) - 1) : new[j] = old[j]
    /\ old # <<>> => IsPrefix(old[Len(old)], new[Len(old)])

C11_Step ==
    /\ Len(questions_map) <= Len(questions_map')
    /\ \A k \in 1..Len(questions_map) :
         LET q == questions_map[k].obj
             q2 == questions_map'[k].obj
         IN  /\ questions_map'[k].key = questions_map[k].key
             /\ IsPrefix(q.question, q2.question)
             /\ IsPrefix(q.question_hi, q2.question_hi)
             /\ C11_ListGrows(q.options, q2.options)
             /\ C11_ListGrows(q.options_hi, q2.options_hi)

\* C11: every step only appends to the text fields of the records.
C11_TextFieldsAppendOnly == [][C11_Step]_vars

\* "1. What is X?", "(A) Alpha", "continued", "1. What is X?": the stem and
\* the option have both been extended.
C11_Witness ==
    /\ consumed = 4
    /\ line_idx = 1
    /\ Len(questions_map) = 1
    /\ questions_map[1].obj.question =
           <<87, 104, 97, 116, 32, 105, 115, 32, 88, 63, 32,
             87, 104, 97, 116, 32, 105, 115, 32, 88, 63>>
    /\ questions_map[1].obj.options =
           << <<65, 108, 112, 104, 97, 32, 99, 111, 110, 116, 105, 110, 117, 101, 100>> >>

(***************************************************************************)
(* C12.  The text of a question-start line goes to question_hi when it     *)
(* holds at least one code point of U+0900..U+097F and to question         *)
(* otherwise, and the stem of the other language is unchanged; the text of *)
(* an option-start line goes to exactly one of options_hi / options by the *)
(* same test.                                                              *)
(***************************************************************************)
C12_HasDevanagari(t) == \E n \in 1..Len(t) : t[n] \in 2304..2431

\* The raw lines whose captured text holds a Devanagari code point.
C12_HindiQuestionLines ==
    {i \in 1..Len(RawLines) : C12_HasDevanagari(Lines[i].q_match.text)}

C12_HindiOptionLines ==
    {i \in 1..Len(RawLines) : C12_HasDevanagari(Lines[i].opt_match.text)}

C12_QuestionStep ==
    \A i \in 1..Len(RawLines) :
        (Took(i) /\ IsQuestionLine(i)) =>
            LET t == Lines[i].q_match.text
                known == Lines[i].q_match.num \in Keys
                old_en == IF known THEN questions_map[current_q_obj'].obj.question
                          ELSE <<>>
                old_hi == IF known THEN questions_map[current_q_obj'].obj.question_hi
                          ELSE <<>>
                q2 == questions_map'[current_q_obj'].obj
            IN  IF i \in C12_HindiQuestionLines
                THEN /\ q2.question_hi # old_hi
                     /\ IsPrefix(old_hi, q2.question_hi)
                     /\ IsSuffix(t, q2.question_hi)
                     /\ q2.question = old_en
                ELSE /\ q2.question # old_en
                     /\ IsPrefix(old_en, q2.question)
                     /\ IsSuffix(t, q2.question)
                     /\ q2.question_hi = old_hi

C12_OptionStep ==
    \A i \in 1..Len(RawLines) :
        (Took(i) /\ IsOptionLine(i) /\ current_q_obj # 0) =>
            LET t == Lines[i].opt_match.text
                q == questions_map[current_q_obj].obj
                q2 == questions_map'[current_q_obj].obj
            IN  IF i \in C12_HindiOptionLines
                THEN q2.options_hi = q.options_hi \o <<t>> /\ q2.options = q.options
                ELSE q2.options = q.options \o <<t>> /\ q2.options_hi = q.options_hi

\* C12: one Devanagari code point in the captured text decides the field.
C12_ScriptRouting == [][C12_QuestionStep /\ C12_OptionStep]_vars

\* "2. What is Y?" and then "2) Beta <U+0915>": the mixed text went to
\* question_hi, question still holds the English stem alone.
C12_Witness ==
    /\ consumed = 2
    /\ line_idx = 13
    /\ Len(questions_map) = 1
    /\ questions_map[1].obj.question = <<87, 104, 97, 116, 32, 105, 115, 32, 89, 63>>
    /\ questions_map[1].obj.question_hi = <<66, 101, 116, 97, 32, 2325>>

(***************************************************************************)
(* C16.  A line that matches both patterns is handled as a question-start: *)
(* the record of its number is created or re-activated and gets the text   *)
(* in a stem, and no option list of any record changes, also when the      *)
(* current record already has options.                                     *)
(***************************************************************************)
\* The raw lines that reach the pattern tests and match both patterns.
C16_BothPatternLines ==
    {i \in 1..Len(RawLines) :
        IsTextLine(i) /\ Lines[i].q_match.matched /\ Lines[i].opt_match.matched}

C16_Step ==
    \A i \in C16_BothPatternLines :
        Took(i) =>
            /\ current_q_obj' \in 1..Len(questions_map')
            /\ questions_map'[current_q_obj'].key = Lines[i].q_match.num
            /\ Len(questions_map') =
                 IF Lines[i].q_match.num \in Keys THEN Len(questions_map)
                 ELSE Len(questions_map) + 1
            /\ \A k \in 1..Len(questions_map) :
                 /\ questions_map'[k].obj.options = questions_map[k].obj.options
                 /\ questions_map'[k].obj.options_hi = questions_map[k].obj.options_hi
            /\ \A k \in (Len(questions_map) + 1)..Len(questions_map') :
                 /\ questions_map'[k].obj.options = <<>>
                 /\ questions_map'[k].obj.options_hi = <<>>
            /\ LET q2 == questions_map'[current_q_obj'].obj
               IN  \/ IsSuffix(Lines[i].q_match.text, q2.question)
                   \/ IsSuffix(Lines[i].q_match.text, q2.question_hi)

\* C16: the question pattern wins over the option pattern.
C16_QuestionPatternFirst == [][C16_Step]_vars

\* "2. What is Y?", "(A) Alpha", "2) Beta <U+0915>": the record has its one
\* option and "Beta <U+0915>" is in a stem.
C16_Witness ==
    /\ consumed = 3
    /\ line_idx = 13
    /\ 13 \in C16_BothPatternLines
    /\ Len(questions_map) = 1
    /\ questions_map[1].obj.options = << <<65, 108, 112, 104, 97>> >>
    /\ questions_map[1].obj.options_hi = <<>>
    /\ questions_map[1].obj.question_hi = <<66, 101, 116, 97, 32, 2325>>

(***************************************************************************)
(* C17.  The sort is stable on the numeric value: records whose identifier *)
(* strings differ and have the same numeric value are returned in the      *)
(* order in which they were created.                                       *)
(***************************************************************************)
\* Position in the returned list of the record with the id of q.
C17_Position(q) ==
    CHOOSE p \in 1..Len(sorted_questions) : sorted_questions[p].id = q.id

C17_TiesInCreationOrder ==
    pc # "parsing" =>
        \A j, k \in 1..Len(questions_map) :
            (j < k /\ NumericId(questions_map[j].obj) = NumericId(questions_map[k].obj))
                => C17_Position(questions_map[j].obj) < C17_Position(questions_map[k].obj)

\* "1" created before "01": returned as "UNK1", "UNK01".
C17_Witness ==
    /\ pc = "returned"
    /\ Len(questions_map) = 2
    /\ questions_map[1].key = <<49>>
    /\ questions_map[2].key = <<48, 49>>
    /\ sorted_questions[1].id = <<85, 78, 75, 49>>
    /\ sorted_questions[2].id = <<85, 78, 75, 48, 49>>

(***************************************************************************)
(* C18.  A step changes at most one text field of at most one record, and  *)
(* that record is the current one after the step; every other record is    *)
(* left as it is.                                                          *)
(***************************************************************************)
\* The text fields in which the records q and q2 differ.
C18_Changed(q, q2) ==
    {f \in {"question", "question_hi", "options", "options_hi"} : q[f] # q2[f]}

C18_Step ==
    /\ Len(questions_map') \in {Len(questions_map), Len(questions_map) + 1}
    /\ \A k \in 1..Len(questions_map) :
         IF k = current_q_obj'
         THEN /\ Cardinality(C18_Changed(questions_map[k].obj,
                                         questions_map'[k].obj)) <= 1
              /\ questions_map'[k].key = questions_map[k].key
              /\ questions_map'[k].obj.id = questions_map[k].obj.id
         ELSE questions_map'[k] = questions_map[k]
    /\ Len(questions_map') = Len(questions_map) + 1 =>
         /\ current_q_obj' = Len(questions_map')
         /\ Cardinality(C18_Changed(
                NewQuestion(questions_map'[current_q_obj'].key, EXAM_NAME,
                            CLASSIFICATION_STUB),
                questions_map'[current_q_obj'].obj)) <= 1

\* C18: only the record that is current after a step can differ, in one field.
C18_OnlyCurrentRecordChanges == [][C18_Step]_vars

\* Identifiers 1 and 2, then a continuation line and an option line for 2:
\* record 1 holds only its stem.
C18_Witness ==
    /\ consumed = 4
    /\ Len(questions_map) = 2
    /\ current_q_obj = 2
    /\ questions_map[1].obj.question = <<87, 104, 97, 116, 32, 105, 115, 32, 88, 63>>
    /\ questions_map[1].obj.options = <<>>
    /\ Len(questions_map[2].obj.question) > 10
    /\ Len(questions_map[2].obj.options) = 1

(***************************************************************************)
(* C19.  The code sorts and then filters; filtering the records in their   *)
(* order of creation and then sorting them gives the same list.            *)
(***************************************************************************)
C19_SortAndFilterCommute ==
    pc = "validated" =>
        valid_questions = Sorted(ValidQuestions(Values(questions_map)))

\* Identifier 5 (a stem of 510 characters, dropped), then 2, then 1: the
\* result is 1, 2.
C19_Witness ==
    /\ pc = "validated"
    /\ Len(questions_map) = 3
    /\ questions_map[1].key = <<53>>
    /\ questions_map[2].key = <<50>>
    /\ questions_map[3].key = <<49>>
    /\ Len(valid_questions) = 2
    /\ valid_questions[1].id = <<85, 78, 75, 49>>
    /\ valid_questions[2].id = <<85, 78, 75, 50>>

(***************************************************************************)
(* C20.  The text captured from a question-start line is never empty, so   *)
(* every record has a non-empty question or question_hi from the step that *)
(* creates it, and the validator's rule for two empty stems drops no       *)
(* record that parse_questions produced.                                   *)
(***************************************************************************)
\* The raw lines that match the question pattern with an empty text.
C20_EmptyTextLines ==
    {i \in 1..Len(RawLines) :
        /\ Lines[i].line # <<>>
        /\ Lines[i].q_match.matched
        /\ Lines[i].q_match.text = <<>>}

C20_HasStem(q) == q.question # <<>> \/ q.question_hi # <<>>

C20_EveryRecordHasAStem ==
    /\ C20_EmptyTextLines = {}
    /\ \A k \in 1..Len(questions_map) : C20_HasStem(questions_map[k].obj)
    /\ \A j \in 1..Len(sorted_questions) : C20_HasStem(sorted_questions[j])
    /\ pc = "validated" =>
         \A j \in 1..Len(sorted_questions) :
             (\A v \in 1..Len(valid_questions) :
                  valid_questions[v] # sorted_questions[j])
                 => (Len(sorted_questions[j].question) > 500
                     \/ Len(sorted_questions[j].question_hi) > 500)

\* The raw line "4. " is "4." once stripped, which is no question-start: it
\* was joined to the stem of record 1 and no record 4 exists.
C20_Witness ==
    /\ consumed = 2
    /\ line_idx = 14
    /\ RawLines[14] = <<52, 46, 32>>
    /\ ~Lines[14].q_match.matched
    /\ Len(questions_map) = 1
    /\ questions_map[1].obj.question =
           <<87, 104, 97, 116, 32, 105, 115, 32, 88, 63, 32, 52, 46>>

(***************************************************************************)
(* C13.  In extract_text_from_pdf a page whose OCR fails, on its left or   *)
(* on its right half, contributes no line to the stream and does not end   *)
(* the loop: every page is visited, and the stream is, in page order, the  *)
(* lines of the left half followed by the lines of the right half of each  *)
(* page whose two halves were read.                                        *)
(***************************************************************************)
RECURSIVE C13_Stream(_)
C13_Stream(log) ==
    IF log = <<>> THEN <<>>
    ELSE LET rest == C13_Stream(SubSeq(log, 1, Len(log) - 1))
             page == log[Len(log)]
         IN  IF page.ok
             THEN rest \o Split(page.left) \o Split(page.right)
             ELSE rest

C13_FailedPageContributesNothing ==
    /\ full_text_lines = C13_Stream(ocr_log)
    /\ ocr_pc \in {"ocr_left", "ocr_right"} => Len(ocr_log) = page_i - 1
    /\ ocr_pc = "returned" => Len(ocr_log) = images

\* Three pages, the right half of the second fails after its left half was
\* read as "a\nb": the stream is the lines of pages one and three.
C13_Witness ==
    /\ ocr_pc = "returned"
    /\ images = 3
    /\ ocr_log[1] = [ok |-> TRUE, half |-> "none",
                     left |-> <<99, 10>>, right |-> <<2325>>]
    /\ ocr_log[2] = [ok |-> FALSE, half |-> "right",
                     left |-> <<97, 10, 98>>, right |-> <<>>]
    /\ ocr_log[3] = [ok |-> TRUE, half |-> "none",
                     left |-> <<97, 10, 98>>, right |-> <<>>]
    /\ full_text_lines = << <<99>>, <<>>, <<2325>>, <<97>>, <<98>>, <<>> >>

(***************************************************************************)
(* C14.  A failure while processing one document never aborts the batch:   *)
(* the loop reaches the end of the sorted file list, and on the way every  *)
(* file, in order, is skipped exactly when its .json output is larger      *)
(* than 100 bytes and attempted otherwise, whatever the earlier files      *)
(* raised; a document that cannot be rasterized is saved with zero         *)
(* records and the loop goes on.                                           *)
(***************************************************************************)
C14_HandledInOrder ==
    /\ Len(handled) = file_i - 1
    /\ Len(handled) <= Len(files)
    /\ \A j \in 1..Len(handled) :
        /\ handled[j].file = files[j]
        /\ handled[j].what = "skipped" <=> handled[j].seen = "big"
        /\ handled[j].what \in {"skipped", "saved", "error"}
        /\ (handled[j].what = "saved" /\ ~handled[j].rasterized)
               => handled[j].records = 0

C14_BatchNeverAborts ==
    /\ []C14_HandledInOrder
    /\ <>(Len(handled) = Len(files))

\* "B.Pdf" raises, "a.PDF" cannot be rasterized and is saved with zero
\* records, and "a.pdf" is still attempted and saved.
C14_Witness ==
    /\ files = << <<66, 46, 80, 100, 102>>, <<97, 46, 80, 68, 70>>,
                  <<97, 46, 112, 100, 102>> >>
    /\ Len(handled) = 3
    /\ handled[1].what = "error"
    /\ handled[2].what = "saved" /\ ~handled[2].rasterized
    /\ handled[2].records = 0
    /\ handled[3].what = "saved" /\ handled[3].records = 1
    /\ file_i = 4

=============================================================================
